---------------------------- MODULE Spec2Model ----------------------------
(***************************************************************************)
(* A model of the minecraft-query crate: the VarInt codec, the frame       *)
(* packer, the status-request builder, the response reader and the JSON    *)
(* mapping onto ServerStatus.                                              *)
(*                                                                         *)
(* Representation.  A byte (u8) is a number in 0..255.  An i32 is a number *)
(* in -2^31 .. 2^31-1 (two's complement is implied); every operator on     *)
(* i32 below keeps its intermediate results inside that range.  A byte     *)
(* string (Vec<u8>, &str) is a sequence of bytes.                          *)
(***************************************************************************)
EXTENDS Integers, Sequences, FiniteSets, TLC

VARIABLES
    op,         \* which operation this behaviour runs
    pc,         \* position in the running operation
    num,        \* var_int_encode: the argument
    data,       \* var_int_pack: the argument
    hostname,   \* status_packet_builder / get_server_json: the argument
    port,       \* status_packet_builder / get_server_json: the argument
    packet,     \* the byte string the last builder returned / wrote
    input,      \* the bytes the stream held when it was opened (codec runs)
    stream,     \* the bytes the stream still holds (codec runs)
    consumed,   \* number of bytes read from the stream so far
    value,      \* var_int_read: local `value`
    length,     \* var_int_read: local `length`
    ret,        \* var_int_read: the returned Result
    buffer,     \* the bytes read after the VarInt
    result,     \* the operation's outcome
    hdr,        \* get_server_json: the VarInts read so far, each with the
                \* number of bytes it took: _length, _id, string_length
    raw_json,   \* server_status: local `raw_json`
    eof,        \* whether a read has met the end of the stream
    steps       \* the steps of the query executed so far, in order

codecVars == << num, data, input, stream >>
queryVars == << hdr, raw_json, eof, steps >>

vars == << op, pc, num, data, hostname, port, packet, input, stream, consumed,
           value, length, ret, buffer, result, hdr, raw_json, eof, steps >>

---------------------------------------------------------------------------
(* Machine integers *)

I32_MAX == 2147483647
I32_MIN == -2147483647 - 1

\* Bit i of an i32 in two's complement, for 0 <= i <= 30; bit 31 is the sign.
BitAt(x, i) == (x \div 2 ^ i) % 2

\* x << n on an i32, for 0 <= n < 32 (the wrapping shift of Rust's `<<`):
\* the low 31 - n bits move up by n, bit 31 - n becomes the sign.
Shl(x, n) ==
    IF n = 0 THEN x
    ELSE (IF x % (2 ^ (31 - n)) = 0 THEN 0 ELSE (x % (2 ^ (31 - n))) * 2 ^ n)
           + (IF BitAt(x, 31 - n) = 1 THEN I32_MIN ELSE 0)

\* i32::checked_shl(x, n).unwrap_or(0): None exactly when n >= 32.
CheckedShlOr0(x, n) == IF n >= 32 THEN 0 ELSE Shl(x, n)

\* Bitwise or / and of two i32 in two's complement: bits lo .. hi (at most
\* bit 30) by halves, then the sign bit.
RECURSIVE OrBits(_, _, _, _)
OrBits(a, b, lo, hi) ==
    IF lo = hi
    THEN IF BitAt(a, lo) = 1 \/ BitAt(b, lo) = 1 THEN 2 ^ lo ELSE 0
    ELSE OrBits(a, b, lo, (lo + hi) \div 2)
           + OrBits(a, b, (lo + hi) \div 2 + 1, hi)

BitOr(a, b) == OrBits(a, b, 0, 30) + (IF a < 0 \/ b < 0 THEN I32_MIN ELSE 0)

RECURSIVE AndBits(_, _, _, _)
AndBits(a, b, lo, hi) ==
    IF lo = hi
    THEN IF BitAt(a, lo) = 1 /\ BitAt(b, lo) = 1 THEN 2 ^ lo ELSE 0
    ELSE AndBits(a, b, lo, (lo + hi) \div 2)
           + AndBits(a, b, (lo + hi) \div 2 + 1, hi)

BitAnd(a, b) == AndBits(a, b, 0, 30) + (IF a < 0 /\ b < 0 THEN I32_MIN ELSE 0)

\* `x as u8` of an i32: the low 8 bits.
AsU8(x) == x % 256

\* `x >> 7` on an i32: the arithmetic shift.
Sar7(x) == x \div 128

\* `(x as u32) > m` for an i32 x and a bound 0 <= m < 2^31: a negative x is
\* x + 2^32 >= 2^31 as a u32.
AsU32Gt(x, m) == IF x < 0 THEN TRUE ELSE x > m

---------------------------------------------------------------------------
(* src/src/lib.rs: var_int_encode *)

\* The loop of var_int_encode, from the state (var_int, value).
RECURSIVE EncodeLoop(_, _)
EncodeLoop(var_int, v) ==
    IF v >= 128
    THEN EncodeLoop(Append(var_int, BitOr(128, AsU8(v))), Sar7(v))
    ELSE Append(var_int, AsU8(v))

var_int_encode(n) == EncodeLoop(<< >>, n)

(* src/src/lib.rs: var_int_pack *)
\* Mutant: the prefix counts itself as well as the payload.
var_int_pack_CountsPrefix(d) == var_int_encode(Len(d) + 1) \o d

var_int_pack(d) == var_int_encode(Len(d)) \o d

(* src/src/lib.rs: status_packet_builder *)
\* Mutant: the port in little-endian order.
ToBeBytes_LittleEndian(p) == << p % 256, p \div 256 >>

\* u16::to_be_bytes
ToBeBytes(p) == << p \div 256, p % 256 >>

status_packet_builder(h, p) ==
    var_int_pack(<<0, 0>> \o var_int_pack(h) \o ToBeBytes(p) \o <<1>>)
        \o var_int_pack(<<0>>)

---------------------------------------------------------------------------
(* Results *)

Ok(v) == [tag |-> "Ok", v |-> v]
Err(e) == [tag |-> "Err", e |-> e]
None == [tag |-> "None"]

IsOk(r) == r.tag = "Ok"
IsErr(r) == r.tag = "Err"
IsErrOf(r, e) == r.tag = "Err" /\ r.e = e

\* The elements of a sequence.
Range(s) == { s[i] : i \in 1 .. Len(s) }

\* The end of the stream, where a byte is expected.
EOF == -1

\* Mutant: the length guard tests `length` before it is incremented.
VarIntIter_LateGuard(v, l, b) ==
    IF b = EOF
    THEN [value |-> v, length |-> l, ret |-> Err("Io")]
    ELSE LET v2 == BitOr(v, CheckedShlOr0(BitAnd(b, 127), l * 7))
         IN  [value |-> v2, length |-> l + 1,
              ret |-> IF l > 5 THEN Err("InvalidVarInt")
                      ELSE IF BitAnd(b, 128) # 128 THEN Ok(v2)
                      ELSE None]

(* src/src/lib.rs: var_int_read, one iteration of its loop from the       *)
(* locals value = v, length = l, on the byte b that read_exact yields     *)
(* (EOF: the stream has ended and `?` returns the error).  The result is  *)
(* the locals after the iteration and what the function returns (None:    *)
(* the loop goes on).                                                     *)
VarIntIter(v, l, b) ==
    IF b = EOF
    THEN [value |-> v, length |-> l, ret |-> Err("Io")]
    ELSE LET v2 == BitOr(v, CheckedShlOr0(BitAnd(b, 127), l * 7))
         IN  [value |-> v2, length |-> l + 1,
              ret |-> IF l + 1 > 5 THEN Err("InvalidVarInt")
                      ELSE IF BitAnd(b, 128) # 128 THEN Ok(v2)
                      ELSE None]

---------------------------------------------------------------------------
(* Reading from a stream *)

\* Mutant: a short read returns the bytes that did arrive.
ReadExact_Partial(n, avail) ==
    IF Len(avail) >= n THEN Ok(SubSeq(avail, 1, n)) ELSE Ok(avail)

\* read_exact into a buffer of n bytes, when the stream delivers the bytes
\* `avail` before it ends: the n bytes, or the error of a short read.
ReadExact(n, avail) ==
    IF Len(avail) >= n THEN Ok(SubSeq(avail, 1, n)) ELSE Err("Io")

\* The number of bytes read_exact takes from the stream in that case.
ReadExactTaken(n, avail) == IF Len(avail) >= n THEN n ELSE Len(avail)

---------------------------------------------------------------------------
(* Bounds and inputs of the codec runs *)

MaxSmall == 130          \* every i32 in -MaxSmall..MaxSmall is encoded
MaxStreamLen == 7        \* longest stream handed to var_int_read
MaxPayloadLen == 3       \* longest enumerated payload of var_int_pack
MaxHostLen == 2          \* longest enumerated hostname

\* n copies of the byte b.
Fill(b, n) == [i \in 1 .. n |-> b]

\* All sequences over S of length at most n.
RECURSIVE SeqsUpTo(_, _)
SeqsUpTo(S, n) ==
    IF n = 0 THEN { << >> }
    ELSE LET shorter == SeqsUpTo(S, n - 1)
         IN  shorter \cup { Append(s, b) : s \in shorter, b \in S }

I32Samples ==
    (-MaxSmall .. MaxSmall)
      \cup { 255, 256, 16383, 16384, 25565, 2097151, 2097152, 16777215,
             52428800, 268435455, 268435456, 1073741824, I32_MAX - 1, I32_MAX,
             -255, -256, -25565, -16777215, -268435456, I32_MIN + 1, I32_MIN }

CodecBytes == { 0, 127, 128, 255 }
StreamSamples == SeqsUpTo(CodecBytes, MaxStreamLen)

PayloadSamples ==
    SeqsUpTo({ 0, 128, 255 }, MaxPayloadLen)
      \cup { Fill(255, n) : n \in { 127, 128, 129, 300 } }

HostSamples ==
    SeqsUpTo({ 97, 46 }, MaxHostLen)
      \cup { Fill(97, n) : n \in { 11, 121, 122, 123, 127, 128, 255 } }

PortSamples == { 0, 1, 255, 256, 25565, 65535 }

---------------------------------------------------------------------------
(* The codec runs: one pure operation per behaviour, then (for encode,    *)
(* decode and pack) var_int_read on the bytes it produced.                *)

CodecInit ==
    /\ hdr = << >> /\ raw_json = None /\ eof = FALSE /\ steps = << >>
    /\ consumed = 0 /\ value = 0 /\ length = 0
    /\ ret = None /\ buffer = None /\ result = None
    /\ \/ /\ op = "encode" /\ pc = "start"
          /\ num \in I32Samples
          /\ data = << >> /\ hostname = << >> /\ port = 0
          /\ packet = << >> /\ stream = << >> /\ input = << >>
       \/ /\ op = "decode" /\ pc = "read"
          /\ stream \in StreamSamples /\ input = stream
          /\ num = 0 /\ data = << >> /\ hostname = << >> /\ port = 0
          /\ packet = << >>
       \/ /\ op = "pack" /\ pc = "start"
          /\ data \in PayloadSamples
          /\ num = 0 /\ hostname = << >> /\ port = 0
          /\ packet = << >> /\ stream = << >> /\ input = << >>
       \/ /\ op = "build" /\ pc = "start"
          /\ hostname \in HostSamples /\ port \in PortSamples
          /\ num = 0 /\ data = << >>
          /\ packet = << >> /\ stream = << >> /\ input = << >>

\* var_int_encode(num); its bytes become the stream to decode.
Encode ==
    /\ op = "encode" /\ pc = "start"
    /\ packet' = var_int_encode(num)
    /\ stream' = packet'
    /\ input' = packet'
    /\ pc' = "read"
    /\ UNCHANGED << op, num, data, hostname, port, consumed, value, length,
                    ret, buffer, result, queryVars >>

\* var_int_pack(data); its bytes become the stream to read back.
Pack ==
    /\ op = "pack" /\ pc = "start"
    /\ packet' = var_int_pack(data)
    /\ stream' = packet'
    /\ input' = packet'
    /\ pc' = "read"
    /\ UNCHANGED << op, num, data, hostname, port, consumed, value, length,
                    ret, buffer, result, queryVars >>

\* status_packet_builder(hostname, port)
Build ==
    /\ op = "build" /\ pc = "start"
    /\ packet' = status_packet_builder(hostname, port)
    /\ result' = Ok(packet')
    /\ pc' = "done"
    /\ UNCHANGED << op, num, data, hostname, port, input, stream, consumed,
                    value, length, ret, buffer, queryVars >>

\* One iteration of var_int_read on the in-memory stream.
CodecReadByte ==
    /\ op \in { "encode", "decode", "pack" } /\ pc = "read"
    /\ LET r == VarIntIter(value, length,
                            IF stream = << >> THEN EOF ELSE Head(stream))
       IN  /\ value' = r.value /\ length' = r.length /\ ret' = r.ret
    /\ consumed' = IF stream = << >> THEN consumed ELSE consumed + 1
    /\ stream' = IF stream = << >> THEN stream ELSE Tail(stream)
    /\ eof' = (eof \/ stream = << >>)
    /\ pc' = IF ret'.tag = "None" THEN "read"
             ELSE IF op = "pack" /\ IsOk(ret') THEN "payload"
             ELSE "done"
    /\ result' = IF op = "pack" /\ IsOk(ret') THEN None ELSE ret'
    /\ UNCHANGED << op, num, data, hostname, port, packet, input, buffer,
                    hdr, raw_json, steps >>

\* After the length prefix: read that many bytes.
CodecReadPayload ==
    /\ op = "pack" /\ pc = "payload"
    /\ LET n == ret.v
           r == ReadExact(n, stream)
           k == ReadExactTaken(n, stream)
       IN  /\ buffer' = r
           /\ result' = r
           /\ consumed' = consumed + k
           /\ stream' = SubSeq(stream, k + 1, Len(stream))
           /\ eof' = (eof \/ IsErr(r))
    /\ pc' = "done"
    /\ UNCHANGED << op, num, data, hostname, port, packet, input, value,
                    length, ret, hdr, raw_json, steps >>

CodecNext ==
    \/ Encode
    \/ Pack
    \/ Build
    \/ CodecReadByte
    \/ CodecReadPayload

SpecCodec == CodecInit /\ [][CodecNext]_vars

---------------------------------------------------------------------------
(* The reference VarInt encoding (wiki.vg, which var_int_encode cites):   *)
(* the value is taken as an unsigned 32-bit number and shifted right      *)
(* logically by 7 bits per byte.                                          *)

\* (v as u32) >> 7, as an i32: for a negative v the sign bits shifted in by
\* the arithmetic shift are cleared (2^32 / 2^7 = 2^25 is added).
Lsr7(v) == IF v < 0 THEN (v \div 128) + 33554432 ELSE v \div 128

RECURSIVE RefVarInt(_)
RefVarInt(v) ==
    IF v >= 0 /\ v < 128
    THEN << v >>
    ELSE << 128 + (v % 128) >> \o RefVarInt(Lsr7(v))

\* The shape of a well-formed VarInt: 1 to 5 bytes, the continuation bit
\* set on every byte but the last.
WellFormedVarInt(bs) ==
    /\ Len(bs) \in 1 .. 5
    /\ \A i \in 1 .. Len(bs) - 1 : bs[i] >= 128
    /\ bs[Len(bs)] < 128

\* The first position among the first 5 bytes of bs whose continuation bit
\* is clear; 0 when there is none.
FirstTerminator(bs) ==
    LET T == { i \in 1 .. 5 : i <= Len(bs) /\ bs[i] < 128 }
    IN  IF T = { } THEN 0 ELSE CHOOSE i \in T : \A j \in T : i <= j

\* The first 5 bytes of bs exist and all carry the continuation bit.
FiveContinuations(bs) == Len(bs) >= 5 /\ \A i \in 1 .. 5 : bs[i] >= 128

---------------------------------------------------------------------------
(* Claims about the codec, the packer and the request builder (SpecCodec) *)

\* C1 (as claimed): for every i32 v, var_int_read on the bytes of
\* var_int_encode(v) returns Ok(v).
C1_RoundTrip ==
    (op = "encode" /\ pc = "done") => (IsOk(result) /\ result.v = num)

\* C2 (as claimed): var_int_encode(v) is the reference base-128 encoding of
\* v taken as a u32: 1 to 5 bytes, continuation bit on all but the last,
\* a last byte of 0 only for v = 0, and exactly 5 bytes for a negative v.
C2_EncodeIsReference ==
    (op = "encode" /\ pc # "start") =>
        /\ packet = RefVarInt(num)
        /\ WellFormedVarInt(packet)
        /\ (packet[Len(packet)] = 0 => num = 0)
        /\ (num < 0 => Len(packet) = 5)

\* C3 (as claimed): var_int_read succeeds exactly when a byte with bit 0x80
\* clear is among the first 5 bytes, having consumed the bytes up to and
\* including it; when the first 5 bytes all have bit 0x80 set it fails with
\* the malformed-VarInt error after consuming at most 6 bytes.
C3_ReadOutcome_Original ==
    (op = "decode" /\ pc = "done") =>
        /\ IsOk(result) <=> FirstTerminator(input) # 0
        /\ IsOk(result) =>
              /\ consumed = FirstTerminator(input)
              /\ stream = SubSeq(input, consumed + 1, Len(input))
        /\ FiveContinuations(input) =>
              /\ IsErrOf(result, "InvalidVarInt")
              /\ consumed <= 6

\* C3 (amended): success and the bytes consumed are as claimed; when the
\* first 5 bytes all have bit 0x80 set, var_int_read reads a 6th byte: if
\* there is one it fails with the malformed-VarInt error having consumed
\* exactly 6 bytes, and if the stream ends after the 5th it fails with the
\* I/O error of the short read.  It never reads a 7th byte.
C3_ReadOutcome ==
    /\ (op = "decode") => consumed <= 6
    /\ (op = "decode" /\ pc = "done") =>
        /\ IsOk(result) <=> FirstTerminator(input) # 0
        /\ IsOk(result) =>
              /\ consumed = FirstTerminator(input)
              /\ stream = SubSeq(input, consumed + 1, Len(input))
        /\ (FiveContinuations(input) /\ Len(input) >= 6) =>
              /\ IsErrOf(result, "InvalidVarInt")
              /\ consumed = 6
              /\ stream = SubSeq(input, 7, Len(input))
        /\ (FiveContinuations(input) /\ Len(input) = 5) =>
              /\ IsErrOf(result, "Io")
              /\ consumed = 5

\* C3 witness: seven continuation bytes; the read has failed as malformed
\* after the 6th and the 7th is still in the stream.
C3_Witness ==
    /\ op = "decode" /\ pc = "done"
    /\ Len(input) = 7 /\ \A i \in 1 .. 7 : input[i] >= 128
    /\ IsErrOf(result, "InvalidVarInt")
    /\ consumed = 6 /\ Len(stream) = 1

\* The handshake body that status_packet_builder frames, per the protocol
\* layout: id 0x00, version VarInt 0x00, VarInt(n) ++ hostname, the port
\* big-endian, next state 0x01.
HandshakeBody(h, p) ==
    << 0, 0 >> \o RefVarInt(Len(h)) \o h
        \o << (p - (p % 256)) \div 256, p % 256 >> \o << 1 >>

\* C6: status_packet_builder(h, p) = VarInt(len(body)) ++ body ++ [1, 0]
\* with body = [0, 0] ++ VarInt(n) ++ h ++ [p high, p low] ++ [1] and
\* len(body) = 5 + len(VarInt(n)) + n.
C6_StatusPacketLayout ==
    (op = "build" /\ pc = "done") =>
        LET body == HandshakeBody(hostname, port)
        IN  /\ packet = RefVarInt(Len(body)) \o body \o << 1, 0 >>
            /\ Len(body) = 5 + Len(RefVarInt(Len(hostname))) + Len(hostname)
            /\ result = Ok(packet)

\* C6 witness: a hostname long enough for a 2-byte outer prefix, and a port
\* whose two bytes differ.
C6_Witness ==
    /\ op = "build" /\ pc = "done"
    /\ Len(hostname) = 122 /\ port = 25565
    /\ SubSeq(packet, 1, 2) = << 128, 1 >>

\* C7: var_int_pack(p) = var_int_encode(len(p)) ++ p, and reading a VarInt
\* from it and then that many bytes gives back p with nothing left over.
C7_PackRoundTrip ==
    /\ (op = "pack" /\ pc # "start") =>
          /\ packet = RefVarInt(Len(data)) \o data
          /\ packet = var_int_encode(Len(data)) \o data
    /\ (op = "pack" /\ pc \in { "payload", "done" }) =>
          /\ ret = Ok(Len(data))
          /\ Len(stream) + consumed = Len(packet)
    /\ (op = "pack" /\ pc = "done") =>
          /\ result = Ok(data)
          /\ stream = << >>
          /\ consumed = Len(packet)

\* C7 witness: a payload of 300 bytes (2-byte prefix) read back whole.
C7_Witness ==
    /\ op = "pack" /\ pc = "done"
    /\ Len(data) = 300 /\ Len(packet) = 302
    /\ IsOk(result) /\ result.v = data /\ stream = << >>

---------------------------------------------------------------------------
(* Text.  A String is the sequence of its UTF-8 bytes.                    *)

\* String::from_utf8 accepts exactly the well-formed UTF-8 sequences (the
\* ranges of core::str's validation).  Lead bytes and continuation bytes
\* are disjoint, so well-formedness is local: every lead byte is followed
\* by its continuation bytes (the first of them in the narrower range the
\* lead dictates), and every continuation byte belongs to a lead.
SeqLen(b) ==
    IF b < 128 THEN 1
    ELSE IF b \in 194 .. 223 THEN 2
    ELSE IF b \in 224 .. 239 THEN 3
    ELSE IF b \in 240 .. 244 THEN 4
    ELSE 0

\* The range of the byte that follows the lead byte b.
SecondRange(b) ==
    IF b = 224 THEN 160 .. 191
    ELSE IF b = 237 THEN 128 .. 159
    ELSE IF b = 240 THEN 144 .. 191
    ELSE IF b = 244 THEN 128 .. 143
    ELSE 128 .. 191

IsCont(b) == b \in 128 .. 191

\* Position i holds a lead (or ASCII) byte with its whole sequence.
StartsChar(t, i) ==
    /\ SeqLen(t[i]) > 0
    /\ i + SeqLen(t[i]) - 1 <= Len(t)
    /\ SeqLen(t[i]) > 1 => t[i + 1] \in SecondRange(t[i])
    /\ \A j \in i + 2 .. i + SeqLen(t[i]) - 1 : IsCont(t[j])

\* Position i holds a continuation byte of a sequence begun just before.
ContinuesChar(t, i) ==
    /\ IsCont(t[i])
    /\ \E d \in 1 .. 3 :
          /\ i - d >= 1
          /\ SeqLen(t[i - d]) > d
          /\ \A j \in i - d + 1 .. i - 1 : IsCont(t[j])

ValidUtf8(t) == \A i \in 1 .. Len(t) : StartsChar(t, i) \/ ContinuesChar(t, i)

from_utf8(bytes) == IF ValidUtf8(bytes) THEN Ok(bytes) ELSE Err("Utf8")

---------------------------------------------------------------------------
(* JSON text to a syntax tree: the grammar serde_json::from_str reads.    *)
(* A tree node is a record tagged by k: "null", "bool" (b), "int" (neg,   *)
(* digits: the decimal digits as bytes), "float" (text), "str" (s),       *)
(* "arr" (items) or "obj" (members: the key/value pairs in source order,  *)
(* repeated keys kept).  Escapes \uXXXX are not modelled: no text of the  *)
(* model contains one.                                                    *)

Fail == [ok |-> FALSE]
Got(v, j) == [ok |-> TRUE, val |-> v, next |-> j]

IsWs(b) == b \in { 32, 9, 10, 13 }
IsDigit(b) == b \in 48 .. 57

\* Whether t holds the bytes w at position i.
HasAt(t, i, w) == i + Len(w) - 1 <= Len(t) /\ SubSeq(t, i, i + Len(w) - 1) = w

RECURSIVE SkipWs(_, _)
SkipWs(t, i) == IF i <= Len(t) /\ IsWs(t[i]) THEN SkipWs(t, i + 1) ELSE i

RECURSIVE DigitsEnd(_, _)
DigitsEnd(t, i) == IF i <= Len(t) /\ IsDigit(t[i]) THEN DigitsEnd(t, i + 1) ELSE i

\* The byte a simple escape \c stands for; 0 when c starts no simple escape.
Unescape(c) ==
    CASE c = 34 -> 34   [] c = 92 -> 92   [] c = 47 -> 47
      [] c = 98 -> 8    [] c = 102 -> 12  [] c = 110 -> 10
      [] c = 114 -> 13  [] c = 116 -> 9   [] OTHER -> 0

\* The string whose opening quote precedes position i.
RECURSIVE ScanString(_, _, _)
ScanString(t, i, acc) ==
    IF i > Len(t) THEN Fail
    ELSE IF t[i] = 34 THEN Got(acc, i + 1)
    ELSE IF t[i] = 92
    THEN IF i + 1 <= Len(t) /\ Unescape(t[i + 1]) # 0
         THEN ScanString(t, i + 2, Append(acc, Unescape(t[i + 1])))
         ELSE Fail
    ELSE IF t[i] < 32 THEN Fail
    ELSE ScanString(t, i + 1, Append(acc, t[i]))

\* Whether the decimal digits a (no leading zero) exceed the digits b.
RECURSIVE DigitsLess(_, _)
DigitsLess(a, b) ==
    IF Len(a) # Len(b) THEN Len(a) < Len(b)
    ELSE IF a = << >> THEN FALSE
    ELSE IF Head(a) # Head(b) THEN Head(a) < Head(b)
    ELSE DigitsLess(Tail(a), Tail(b))

\* 18446744073709551615 (u64::MAX), 9223372036854775807 (i64::MAX) and
\* 9223372036854775808 (-i64::MIN), as decimal digits.
U64MaxDigits == <<49,56,52,52,54,55,52,52,48,55,51,55,48,57,53,53,49,54,49,53>>
I64MaxDigits == <<57,50,50,51,51,55,50,48,51,54,56,53,52,55,55,53,56,48,55>>
I64MinDigits == <<57,50,50,51,51,55,50,48,51,54,56,53,52,55,55,53,56,48,56>>

\* A number starting at position i (a digit or '-').  An integer that fits
\* u64 (or i64, when negative) is an "int"; -0, a larger integer, and any
\* number with a fraction or an exponent is a "float".
ParseNumber(t, i) ==
    LET neg == t[i] = 45
        s == IF neg THEN i + 1 ELSE i
    IN  IF s > Len(t) \/ ~IsDigit(t[s]) THEN Fail
        ELSE
        LET e == IF t[s] = 48 THEN s + 1 ELSE DigitsEnd(t, s)
            hasFrac == e <= Len(t) /\ t[e] = 46
            f == IF hasFrac THEN DigitsEnd(t, e + 1) ELSE e
            hasExp == f <= Len(t) /\ t[f] \in { 101, 69 }
            x == IF hasExp /\ f + 1 <= Len(t) /\ t[f + 1] \in { 43, 45 }
                 THEN f + 2 ELSE f + 1
            g == IF hasExp THEN DigitsEnd(t, x) ELSE f
            digits == SubSeq(t, s, e - 1)
            fits == IF neg THEN ~DigitsLess(I64MinDigits, digits)
                           ELSE ~DigitsLess(U64MaxDigits, digits)
        IN  IF t[s] = 48 /\ e <= Len(t) /\ IsDigit(t[e]) THEN Fail
            ELSE IF hasFrac /\ f = e + 1 THEN Fail
            ELSE IF hasExp /\ g = x THEN Fail
            ELSE IF hasFrac \/ hasExp \/ ~fits \/ (neg /\ digits = << 48 >>)
            THEN Got([k |-> "float", text |-> SubSeq(t, i, g - 1)], g)
            ELSE Got([k |-> "int", neg |-> neg, digits |-> digits], g)

RECURSIVE ParseValue(_, _)
RECURSIVE ParseItems(_, _, _)
RECURSIVE ParseMember(_, _)
RECURSIVE ParseMembers(_, _, _)

\* Each operator below whose last parameter is r (or m, key) continues
\* from the result of the parse before it: a failure fails the whole.

\* The items of an array after its first: position i follows an item.
ItemsAfter(t, acc, r) ==
    IF r.ok THEN ParseItems(t, r.next, Append(acc, r.val)) ELSE Fail

ItemsAt(t, j, acc) ==
    IF j > Len(t) THEN Fail
    ELSE IF t[j] = 93 THEN Got([k |-> "arr", items |-> acc], j + 1)
    ELSE IF t[j] # 44 THEN Fail
    ELSE ItemsAfter(t, acc, ParseValue(t, j + 1))

ParseItems(t, i, acc) == ItemsAt(t, SkipWs(t, i), acc)

\* One member "key" : value, its opening quote expected at position j.
MemberOf(key, r) ==
    IF r.ok THEN Got([key |-> key, val |-> r.val], r.next) ELSE Fail

ColonAt(t, c, key) ==
    IF c > Len(t) \/ t[c] # 58 THEN Fail
    ELSE MemberOf(key, ParseValue(t, c + 1))

AfterKey(t, key) ==
    IF key.ok THEN ColonAt(t, SkipWs(t, key.next), key.val) ELSE Fail

MemberAt(t, j) ==
    IF j > Len(t) \/ t[j] # 34 THEN Fail
    ELSE AfterKey(t, ScanString(t, j + 1, << >>))

ParseMember(t, i) == MemberAt(t, SkipWs(t, i))

\* The members of an object after its first: position i follows a member.
MembersAfter(t, acc, m) ==
    IF m.ok THEN ParseMembers(t, m.next, Append(acc, m.val)) ELSE Fail

MembersAt(t, j, acc) ==
    IF j > Len(t) THEN Fail
    ELSE IF t[j] = 125 THEN Got([k |-> "obj", members |-> acc], j + 1)
    ELSE IF t[j] # 44 THEN Fail
    ELSE MembersAfter(t, acc, ParseMember(t, j + 1))

ParseMembers(t, i, acc) == MembersAt(t, SkipWs(t, i), acc)

\* An array whose '[' precedes position c (white space skipped).
ArrayAt(t, c) ==
    IF c <= Len(t) /\ t[c] = 93
    THEN Got([k |-> "arr", items |-> << >>], c + 1)
    ELSE ItemsAfter(t, << >>, ParseValue(t, c))

\* An object whose '{' precedes position c (white space skipped).
ObjectAt(t, c) ==
    IF c <= Len(t) /\ t[c] = 125
    THEN Got([k |-> "obj", members |-> << >>], c + 1)
    ELSE MembersAfter(t, << >>, ParseMember(t, c))

StringOf(r) == IF r.ok THEN Got([k |-> "str", s |-> r.val], r.next) ELSE Fail

\* A value whose first byte is expected at position j.
ValueAt(t, j) ==
    IF j > Len(t) THEN Fail
    ELSE IF t[j] = 34 THEN StringOf(ScanString(t, j + 1, << >>))
    ELSE IF t[j] = 91 THEN ArrayAt(t, SkipWs(t, j + 1))
    ELSE IF t[j] = 123 THEN ObjectAt(t, SkipWs(t, j + 1))
    ELSE IF t[j] = 45 \/ IsDigit(t[j]) THEN ParseNumber(t, j)
    ELSE IF HasAt(t, j, << 116, 114, 117, 101 >>)
    THEN Got([k |-> "bool", b |-> TRUE], j + 4)
    ELSE IF HasAt(t, j, << 102, 97, 108, 115, 101 >>)
    THEN Got([k |-> "bool", b |-> FALSE], j + 5)
    ELSE IF HasAt(t, j, << 110, 117, 108, 108 >>)
    THEN Got([k |-> "null"], j + 4)
    ELSE Fail

ParseValue(t, i) == ValueAt(t, SkipWs(t, i))

\* Only white space from position i to the end.
EndAt(t, r) ==
    IF r.ok /\ SkipWs(t, r.next) > Len(t) THEN Ok(r.val) ELSE Err("Json")

\* A whole text: one value, then only white space.
ParseText(t) == EndAt(t, ParseValue(t, 1))

---------------------------------------------------------------------------
(* serde_json::Value and its to_string.  Value keeps an object in a       *)
(* BTreeMap: one entry per key, the last occurrence winning, in ascending *)
(* byte order of the keys.                                                *)

\* Byte strings in lexicographic order.
RECURSIVE LexLess(_, _)
LexLess(a, b) ==
    IF b = << >> THEN FALSE
    ELSE IF a = << >> THEN TRUE
    ELSE IF Head(a) # Head(b) THEN Head(a) < Head(b)
    ELSE LexLess(Tail(a), Tail(b))

\* The keys K in ascending order.
RECURSIVE SortKeys(_)
SortKeys(K) ==
    IF K = { } THEN << >>
    ELSE LET m == CHOOSE x \in K : \A y \in K : y = x \/ LexLess(x, y)
         IN  << m >> \o SortKeys(K \ { m })

\* The value of the last member of ms with the key.
LastOf(ms, key) ==
    LET I == { i \in 1 .. Len(ms) : ms[i].key = key }
    IN  ms[CHOOSE i \in I : \A j \in I : j <= i].val

RECURSIVE ToValue(_)
ToValue(node) ==
    IF node.k = "arr"
    THEN [k |-> "arr", items |-> [i \in 1 .. Len(node.items) |-> ToValue(node.items[i])]]
    ELSE IF node.k = "obj"
    THEN LET keys == SortKeys({ node.members[i].key : i \in 1 .. Len(node.members) })
         IN  [k |-> "obj",
              members |-> [i \in 1 .. Len(keys) |->
                              [key |-> keys[i],
                               val |-> ToValue(LastOf(node.members, keys[i]))]]]
    ELSE node

\* serde_json::from_str::<Value>
ValueOf(r) == IF IsOk(r) THEN Ok(ToValue(r.v)) ELSE r

ValueFromStr(t) == ValueOf(ParseText(t))

\* The two hex digits of a byte below 32, for \u00XX.
HexDigit(n) == IF n < 10 THEN 48 + n ELSE 87 + n

\* One byte of a string, as to_string writes it.
EscapeByte(b) ==
    CASE b = 34 -> << 92, 34 >>
      [] b = 92 -> << 92, 92 >>
      [] b = 8  -> << 92, 98 >>
      [] b = 12 -> << 92, 102 >>
      [] b = 10 -> << 92, 110 >>
      [] b = 13 -> << 92, 114 >>
      [] b = 9  -> << 92, 116 >>
      [] b < 32 /\ b \notin { 8, 9, 10, 12, 13 }
           -> << 92, 117, 48, 48, HexDigit(b \div 16), HexDigit(b % 16) >>
      [] OTHER -> << b >>

RECURSIVE EscapeFrom(_, _)
EscapeFrom(str, i) ==
    IF i > Len(str) THEN << >> ELSE EscapeByte(str[i]) \o EscapeFrom(str, i + 1)

Quoted(str) == << 34 >> \o EscapeFrom(str, 1) \o << 34 >>

\* Value::to_string: the compact form.  (A float prints through the
\* shortest-round-trip formatter; the texts of the model hold no float
\* where this is applied, and the source text stands for it.)
RECURSIVE Serialize(_)
RECURSIVE SerializeItems(_, _)
RECURSIVE SerializeMembers(_, _)

SerializeItems(items, i) ==
    IF i > Len(items) THEN << >>
    ELSE (IF i > 1 THEN << 44 >> ELSE << >>)
            \o Serialize(items[i]) \o SerializeItems(items, i + 1)

SerializeMembers(ms, i) ==
    IF i > Len(ms) THEN << >>
    ELSE (IF i > 1 THEN << 44 >> ELSE << >>)
            \o Quoted(ms[i].key) \o << 58 >> \o Serialize(ms[i].val)
            \o SerializeMembers(ms, i + 1)

Serialize(v) ==
    CASE v.k = "null" -> << 110, 117, 108, 108 >>
      [] v.k = "bool" -> IF v.b THEN << 116, 114, 117, 101 >>
                                ELSE << 102, 97, 108, 115, 101 >>
      [] v.k = "int" -> (IF v.neg THEN << 45 >> ELSE << >>) \o v.digits
      [] v.k = "float" -> v.text
      [] v.k = "str" -> Quoted(v.s)
      [] v.k = "arr" -> << 91 >> \o SerializeItems(v.items, 1) \o << 93 >>
      [] v.k = "obj" -> << 123 >> \o SerializeMembers(v.members, 1) \o << 125 >>

---------------------------------------------------------------------------
(* src/server_object.rs: the derived Deserialize of ServerStatus and its  *)
(* parts.  A struct value is the sequence of its fields' values in        *)
(* declaration order; a String is its bytes; an i64 is [neg, digits]; a   *)
(* Vec is a sequence.                                                     *)

K_description == << 100, 101, 115, 99, 114, 105, 112, 116, 105, 111, 110 >>
K_favicon == << 102, 97, 118, 105, 99, 111, 110 >>
K_players == << 112, 108, 97, 121, 101, 114, 115 >>
K_version == << 118, 101, 114, 115, 105, 111, 110 >>
K_text == << 116, 101, 120, 116 >>
K_max == << 109, 97, 120 >>
K_online == << 111, 110, 108, 105, 110, 101 >>
K_sample == << 115, 97, 109, 112, 108, 101 >>
K_id == << 105, 100 >>
K_name == << 110, 97, 109, 101 >>
K_protocol == << 112, 114, 111, 116, 111, 99, 111, 108 >>

Field(name, ty, default) == [name |-> name, ty |-> ty, default |-> default]

\* Mutant: players.sample without its #[serde(default)].
Fields_SampleRequired(ty) ==
    CASE ty = "ServerStatus" ->
            << Field(K_description, "Description", FALSE),
               Field(K_favicon, "String", TRUE),
               Field(K_players, "Players", FALSE),
               Field(K_version, "Version", FALSE) >>
      [] ty = "Description" ->
            << Field(K_text, "String", FALSE) >>
      [] ty = "Players" ->
            << Field(K_max, "i64", FALSE),
               Field(K_online, "i64", FALSE),
               Field(K_sample, "VecSample", FALSE) >>
      [] ty = "Sample" ->
            << Field(K_id, "String", FALSE),
               Field(K_name, "String", FALSE) >>
      [] ty = "Version" ->
            << Field(K_name, "String", FALSE),
               Field(K_protocol, "i64", FALSE) >>

\* The fields of each struct: serialized name, type, #[serde(default)].
Fields(ty) ==
    CASE ty = "ServerStatus" ->
            << Field(K_description, "Description", FALSE),
               Field(K_favicon, "String", TRUE),
               Field(K_players, "Players", FALSE),
               Field(K_version, "Version", FALSE) >>
      [] ty = "Description" ->
            << Field(K_text, "String", FALSE) >>
      [] ty = "Players" ->
            << Field(K_max, "i64", FALSE),
               Field(K_online, "i64", FALSE),
               Field(K_sample, "VecSample", TRUE) >>
      [] ty = "Sample" ->
            << Field(K_id, "String", FALSE),
               Field(K_name, "String", FALSE) >>
      [] ty = "Version" ->
            << Field(K_name, "String", FALSE),
               Field(K_protocol, "i64", FALSE) >>

IsStruct(ty) == ty \in { "ServerStatus", "Description", "Players", "Sample", "Version" }

\* Default::default() of String and of Vec: empty.
DefaultValue == << >>

\* The index of the field of ty serialized as key; 0 for an unknown key.
FieldIndex(ty, key) ==
    LET I == { i \in 1 .. Len(Fields(ty)) : Fields(ty)[i].name = key }
    IN  IF I = { } THEN 0 ELSE CHOOSE i \in I : TRUE

RECURSIVE De(_, _)
RECURSIVE MapSet(_, _, _, _, _, _)
RECURSIVE MapEntry(_, _, _, _, _)
RECURSIVE SeqSet(_, _, _, _, _)
RECURSIVE ItemSet(_, _, _, _, _)
RECURSIVE VisitMap(_, _, _, _)
RECURSIVE VisitSeq(_, _, _, _)
RECURSIVE DeItems(_, _, _, _)

\* visit_map, with the value r of member i, which names field f.
MapSet(ty, ms, i, slots, f, r) ==
    IF IsErr(r) THEN r ELSE VisitMap(ty, ms, i + 1, [slots EXCEPT ![f] = r])

\* visit_map, at member i, which names field f (0: no field of ty).
MapEntry(ty, ms, i, slots, f) ==
    IF f = 0 THEN VisitMap(ty, ms, i + 1, slots)
    ELSE IF slots[f].tag # "None" THEN Err("Json")
    ELSE MapSet(ty, ms, i, slots, f, De(Fields(ty)[f].ty, ms[i].val))

\* visit_map: the members in order; a repeated field is an error, an
\* unknown key is skipped; then every field still unset takes its default
\* or is a missing-field error.
VisitMap(ty, ms, i, slots) ==
    IF i > Len(ms)
    THEN IF \E f \in 1 .. Len(slots) : slots[f].tag = "None" /\ ~Fields(ty)[f].default
         THEN Err("Json")
         ELSE Ok([f \in 1 .. Len(slots) |->
                    IF slots[f].tag = "None" THEN DefaultValue ELSE slots[f].v])
    ELSE MapEntry(ty, ms, i, slots, FieldIndex(ty, ms[i].key))

\* visit_seq, with the value r of item f.
SeqSet(ty, items, f, acc, r) ==
    IF IsErr(r) THEN r ELSE VisitSeq(ty, items, f + 1, Append(acc, r.v))

\* visit_seq: the fields in declaration order from the items; a field past
\* the end takes its default or is an invalid-length error; items past the
\* last field are an error.
VisitSeq(ty, items, f, acc) ==
    IF f > Len(Fields(ty))
    THEN IF Len(items) > Len(Fields(ty)) THEN Err("Json") ELSE Ok(acc)
    ELSE IF f > Len(items)
    THEN IF Fields(ty)[f].default
         THEN VisitSeq(ty, items, f + 1, Append(acc, DefaultValue))
         ELSE Err("Json")
    ELSE SeqSet(ty, items, f, acc, De(Fields(ty)[f].ty, items[f]))

\* Vec<T>, with the value r of item i.
ItemSet(ty, items, i, acc, r) ==
    IF IsErr(r) THEN r ELSE DeItems(ty, items, i + 1, Append(acc, r.v))

\* Vec<T>: every item as a T.
DeItems(ty, items, i, acc) ==
    IF i > Len(items) THEN Ok(acc)
    ELSE ItemSet(ty, items, i, acc, De(ty, items[i]))

De(ty, node) ==
    IF ty = "String"
    THEN IF node.k = "str" THEN Ok(node.s) ELSE Err("Json")
    ELSE IF ty = "i64"
    THEN IF node.k = "int" /\ (node.neg \/ ~DigitsLess(I64MaxDigits, node.digits))
         THEN Ok([neg |-> node.neg, digits |-> node.digits])
         ELSE Err("Json")
    ELSE IF ty = "VecSample"
    THEN IF node.k = "arr" THEN DeItems("Sample", node.items, 1, << >>) ELSE Err("Json")
    ELSE IF node.k = "obj"
    THEN VisitMap(ty, node.members, 1, [f \in 1 .. Len(Fields(ty)) |-> None])
    ELSE IF node.k = "arr"
    THEN VisitSeq(ty, node.items, 1, << >>)
    ELSE Err("Json")

(* src/src/lib.rs: parse_json *)
StatusOf(r) == IF IsOk(r) THEN De("ServerStatus", r.v) ELSE r

parse_json(json) == StatusOf(ParseText(json))

---------------------------------------------------------------------------
(* src/src/lib.rs: get_server_json and server_status, step by step.       *)
(* The resolver, the connection and the peer are the environment: each    *)
(* step that depends on them takes its outcome from a small set.          *)

MAX_PACKET_SIZE == 52428800

MaxBody == 3             \* longest body enumerated byte by byte

\* Full documents the peer may send.
DocOk ==
    <<123,32,34,118,101,114,115,105,111,110,34,58,32,123,34,112,114,111,116,111,99,111,108,34,58,55,53,56,44,32,34,110,97,109,101,34,58,34,86,34,125,44,32,34,112,108,97,121,101,114,115,34,58,32,123,34,111,110,108,105,110,101,34,58,49,57,54,44,34,109,97,120,34,58,49,53,48,125,44,32,34,100,101,115,99,114,105,112,116,105,111,110,34,58,123,34,101,120,116,114,97,34,58,91,93,44,34,116,101,120,116,34,58,34,104,105,34,125,125>>
DocRepeatedKey ==
    << 123,34,100,101,115,99,114,105,112,116,105,111,110,34,58,123,34,116,101,120,116,34,58,34,34,125,44,34,112,108,97,121,101,114,115,34,58,123,34,109,97,120,34,58,49,44,34,111,110,108,105,110,101,34,58,48,125,44,34,118,101,114,115,105,111,110,34,58,91,93,44,34,118,101,114,115,105,111,110,34,58,123,34,110,97,109,101,34,58,34,34,44,34,112,114,111,116,111,99,111,108,34,58,49,125,125 >>
DocNoProtocol ==
    << 123,34,100,101,115,99,114,105,112,116,105,111,110,34,58,123,34,116,101,120,116,34,58,34,34,125,44,34,112,108,97,121,101,114,115,34,58,123,34,109,97,120,34,58,49,44,34,111,110,108,105,110,101,34,58,48,125,44,34,118,101,114,115,105,111,110,34,58,123,34,110,97,109,101,34,58,34,34,125,125 >>
DocSamples == { DocOk, DocRepeatedKey, DocNoProtocol }

\* Bytes of the enumerated bodies: ' ', '1', '[', ']', '"', and the two
\* bytes of U+00E9.
BodyBytes == { 32, 49, 91, 93, 34, 195, 169 }

\* What the peer may send where the frame-length and packet-id VarInts are
\* read, and where the string-length VarInt is read.
HeaderBytes == { 2, 128 }
LengthBytes ==
    (0 .. MaxBody) \cup { 25, 128, 129 } \cup { Len(d) : d \in DocSamples }

\* What the peer may deliver where n body bytes are awaited: a whole body
\* of n bytes, or fewer bytes and then the end of the stream.
PeerBodies(n) ==
    { d \in SeqsUpTo(BodyBytes, MaxBody) \cup DocSamples : Len(d) = n }
      \cup { Fill(32, k) : k \in { j \in 0 .. MaxBody : j < n } }

QueryHosts == { << 97 >>, Fill(97, 122) }
QueryPorts == { 25565 }

\* The steps of a query, in the order of the code.
StepOrder ==
    << "resolve", "connect", "write", "read_length", "read_id",
       "read_string_length", "check_size", "read_body", "decode",
       "deserialize" >>

QueryInit ==
    /\ op \in { "get_server_json", "server_status" }
    /\ pc = "resolve"
    /\ hostname \in QueryHosts /\ port \in QueryPorts
    /\ num = 0 /\ data = << >> /\ input = << >> /\ stream = << >>
    /\ packet = << >>
    /\ consumed = 0 /\ value = 0 /\ length = 0
    /\ ret = None /\ buffer = None /\ result = None
    /\ hdr = << >> /\ raw_json = None /\ eof = FALSE /\ steps = << >>

IsQuery == op \in { "get_server_json", "server_status" }

\* format!("{}:{}", hostname, port).to_socket_addrs()?.next(): an error of
\* the resolver, no address, or an address.
Resolve ==
    /\ IsQuery /\ pc = "resolve"
    /\ steps' = Append(steps, "resolve")
    /\ \E outcome \in { "error", "none", "some" } :
          \/ /\ outcome = "error"
             /\ result' = Err("Resolve") /\ pc' = "done"
          \/ /\ outcome = "none"
             /\ result' = Err("NoAddress") /\ pc' = "done"
          \/ /\ outcome = "some"
             /\ result' = result /\ pc' = "connect"
    /\ UNCHANGED << op, hostname, port, packet, consumed, value, length, ret,
                    buffer, hdr, raw_json, eof, codecVars >>

\* Mutant: a failed connect is tried again.
Connect_Retry ==
    /\ IsQuery /\ pc = "connect"
    /\ steps' = Append(steps, "connect")
    /\ \E ok \in BOOLEAN :
          IF ok THEN result' = result /\ pc' = "write"
          ELSE result' = result /\ pc' = IF Len(steps) < 3 THEN "connect" ELSE "write"
    /\ UNCHANGED << op, hostname, port, packet, consumed, value, length, ret,
                    buffer, hdr, raw_json, eof, codecVars >>

\* TcpStream::connect_timeout(&socket_addr, TIMEOUT)?
Connect ==
    /\ IsQuery /\ pc = "connect"
    /\ steps' = Append(steps, "connect")
    /\ \E ok \in BOOLEAN :
          IF ok THEN result' = result /\ pc' = "write"
          ELSE result' = Err("Connect") /\ pc' = "done"
    /\ UNCHANGED << op, hostname, port, packet, consumed, value, length, ret,
                    buffer, hdr, raw_json, eof, codecVars >>

\* stream.write_all(&status_packet_builder(hostname, port))?  A failed
\* write may have sent a part of the request.
Write ==
    /\ IsQuery /\ pc = "write"
    /\ steps' = Append(steps, "write")
    /\ LET request == status_packet_builder(hostname, port)
       IN  \E ok \in BOOLEAN :
              IF ok
              THEN /\ packet' = request
                   /\ result' = result /\ pc' = "varint"
              ELSE /\ \E k \in { 0, Len(request) - 1 } :
                         packet' = SubSeq(request, 1, k)
                   /\ result' = Err("Write") /\ pc' = "done"
    /\ UNCHANGED << op, hostname, port, consumed, value, length, ret,
                    buffer, hdr, raw_json, eof, codecVars >>

\* One iteration of the loop of the var_int_read call in progress (the
\* first, second or third), on the byte the peer sends or on the end of
\* the stream.  After a call has returned Ok the next call starts from its
\* own locals value = 0, length = 0.
QueryReadByte ==
    /\ IsQuery /\ pc = "varint"
    /\ \E b \in (IF Len(hdr) < 2 THEN HeaderBytes ELSE LengthBytes) \cup { EOF } :
          LET r == IF IsOk(ret) THEN VarIntIter(0, 0, b)
                                ELSE VarIntIter(value, length, b)
          IN  /\ value' = r.value /\ length' = r.length /\ ret' = r.ret
              /\ consumed' = IF b = EOF THEN consumed ELSE consumed + 1
              /\ eof' = (b = EOF)
    /\ IF ret'.tag = "None"
       THEN UNCHANGED << pc, hdr, result, steps >>
       ELSE /\ steps' = Append(steps, StepOrder[4 + Len(hdr)])
            /\ IF IsOk(ret')
               THEN /\ hdr' = Append(hdr, [v |-> ret'.v, n |-> length'])
                    /\ pc' = IF Len(hdr) = 2 THEN "check" ELSE "varint"
                    /\ result' = result
               ELSE /\ hdr' = hdr
                    /\ pc' = "done"
                    /\ result' = ret'
    /\ UNCHANGED << op, hostname, port, packet, buffer, raw_json, codecVars >>

\* Mutant: the ceiling is compared with string_length as a signed number.
CheckSize_Signed ==
    /\ IsQuery /\ pc = "check"
    /\ steps' = Append(steps, "check_size")
    /\ LET string_length == hdr[3].v
       IN  IF string_length > MAX_PACKET_SIZE
           THEN /\ result' = Err("TooLarge") /\ pc' = "done"
                /\ buffer' = buffer
           ELSE /\ result' = result /\ pc' = "body"
                /\ buffer' = [tag |-> "Zeroed", len |-> string_length]
    /\ UNCHANGED << op, hostname, port, packet, consumed, value, length, ret,
                    hdr, raw_json, eof, codecVars >>

\* if string_length as u32 > MAX_PACKET_SIZE { return Err(..) }
\* let mut buffer = vec![0; string_length as usize];
CheckSize ==
    /\ IsQuery /\ pc = "check"
    /\ steps' = Append(steps, "check_size")
    /\ LET string_length == hdr[3].v
       IN  IF AsU32Gt(string_length, MAX_PACKET_SIZE)
           THEN /\ result' = Err("TooLarge") /\ pc' = "done"
                /\ buffer' = buffer
           ELSE /\ result' = result /\ pc' = "body"
                /\ buffer' = [tag |-> "Zeroed", len |-> string_length]
    /\ UNCHANGED << op, hostname, port, packet, consumed, value, length, ret,
                    hdr, raw_json, eof, codecVars >>

\* stream.read_exact(&mut buffer)?  On a short read the buffer is dropped
\* with the error.
ReadBody ==
    /\ IsQuery /\ pc = "body"
    /\ steps' = Append(steps, "read_body")
    /\ \E avail \in PeerBodies(buffer.len) :
       \E r \in { ReadExact(buffer.len, avail) } :
          /\ consumed' = consumed + ReadExactTaken(buffer.len, avail)
          /\ eof' = (Len(avail) < buffer.len)
          /\ IF IsOk(r)
             THEN buffer' = r /\ result' = result /\ pc' = "decode"
             ELSE buffer' = None /\ result' = r /\ pc' = "done"
    /\ UNCHANGED << op, hostname, port, packet, value, length, ret,
                    hdr, raw_json, codecVars >>

\* Mutant: the bytes of the buffer are returned as they were received.
DecodeBody_Verbatim(bytes) == from_utf8(bytes)

\* let json: serde_json::Value =
\*     serde_json::from_str(&String::from_utf8(buffer)?)?;
\* Ok(json.to_string())

\* Ok(json.to_string()), after the `?` on from_str's result.
ToStringOf(json) == IF IsOk(json) THEN Ok(Serialize(json.v)) ELSE json

\* serde_json::from_str(&str), after the `?` on from_utf8's result.
FromStrOf(str) == IF IsOk(str) THEN ValueFromStr(str.v) ELSE str

DecodeBody(bytes) == ToStringOf(FromStrOf(from_utf8(bytes)))

\* The end of get_server_json; in server_status its `?` and raw_json.
Decode ==
    /\ IsQuery /\ pc = "decode"
    /\ steps' = Append(steps, "decode")
    /\ \E r \in { DecodeBody(buffer.v) } :
          IF op = "server_status" /\ IsOk(r)
          THEN raw_json' = r /\ result' = result /\ pc' = "parse"
          ELSE raw_json' = raw_json /\ result' = r /\ pc' = "done"
    /\ UNCHANGED << op, hostname, port, packet, consumed, value, length, ret,
                    buffer, hdr, eof, codecVars >>

\* server_status: parse_json(&raw_json)
Deserialize ==
    /\ op = "server_status" /\ pc = "parse"
    /\ steps' = Append(steps, "deserialize")
    /\ result' = parse_json(raw_json.v)
    /\ pc' = "done"
    /\ UNCHANGED << op, hostname, port, packet, consumed, value, length, ret,
                    buffer, hdr, raw_json, eof, codecVars >>

QueryNext ==
    \/ Resolve
    \/ Connect
    \/ Write
    \/ QueryReadByte
    \/ CheckSize
    \/ ReadBody
    \/ Decode
    \/ Deserialize

SpecQuery == QueryInit /\ [][QueryNext]_vars

---------------------------------------------------------------------------
(* Claims about get_server_json and server_status (SpecQuery) *)

\* The length of the buffer: zeroed as allocated, or filled by the read.
BufLen(b) == IF b.tag = "Zeroed" THEN b.len ELSE Len(b.v)

\* The number of response bytes the three VarInts took.
HeaderLen == hdr[1].n + hdr[2].n + hdr[3].n

\* C4: a declared JSON length that exceeds 52,428,800 as a u32 (every
\* negative i32 included) fails with the response-too-large error before
\* the buffer is allocated or a body byte is read; a body read only ever
\* starts with a declared length in 0 .. 52,428,800.
C4_SizeCeiling ==
    /\ ("check_size" \in Range(steps)
          /\ (hdr[3].v < 0 \/ hdr[3].v > 52428800)) =>
          /\ pc = "done" /\ IsErrOf(result, "TooLarge")
          /\ buffer = None
          /\ "read_body" \notin Range(steps)
          /\ consumed = HeaderLen
    /\ (buffer # None \/ pc = "body" \/ "read_body" \in Range(steps)) =>
          /\ hdr[3].v >= 0 /\ hdr[3].v <= 52428800
          /\ buffer # None => BufLen(buffer) = hdr[3].v

\* C4 witness: the declared length decodes to a negative i32 and the
\* query has failed as too large with only the header consumed.
C4_Witness ==
    /\ pc = "done" /\ Len(hdr) = 3 /\ hdr[3].v < 0
    /\ IsErrOf(result, "TooLarge") /\ buffer = None
    /\ consumed = HeaderLen

\* C5: when the peer closes the stream before the whole response has
\* arrived (inside a VarInt or inside the body) the query ends with the
\* I/O error; no string or ServerStatus is built from a partial buffer.
C5_ShortReadIsIoError ==
    /\ eof => /\ pc = "done" /\ IsErrOf(result, "Io")
              /\ buffer = None /\ raw_json = None
    /\ (pc \in { "decode", "parse" } \/ IsOk(result) \/ raw_json # None) =>
          /\ ~eof
          /\ Len(hdr) = 3 /\ buffer.tag = "Ok"
          /\ Len(buffer.v) = hdr[3].v
          /\ consumed = HeaderLen + hdr[3].v

\* C5 witness: the stream ended inside the body, after some of its bytes.
C5_Witness ==
    /\ eof /\ pc = "done" /\ Len(hdr) = 3
    /\ consumed > HeaderLen /\ consumed < HeaderLen + hdr[3].v
    /\ IsErrOf(result, "Io")

\* C8 (as claimed): with well-formed VarInts and a declared length L within
\* the ceiling, get_server_json reads exactly L bytes after the third
\* VarInt and returns exactly those bytes when they are valid UTF-8,
\* failing only, with the encoding error, when they are not.
C8_RawBytes_Original ==
    (op = "get_server_json" /\ pc = "done" /\ "decode" \in Range(steps)) =>
        /\ Len(buffer.v) = hdr[3].v
        /\ consumed = HeaderLen + hdr[3].v
        /\ IF ValidUtf8(buffer.v)
           THEN result = Ok(buffer.v)
           ELSE IsErrOf(result, "Utf8")

\* C8 (amended): get_server_json reads exactly L bytes after the third
\* VarInt; it fails with the encoding error when they are not valid UTF-8
\* and with the JSON error when they are valid UTF-8 but not one JSON
\* document; otherwise it returns the compact text of the JSON value they
\* denote (keys in ascending order, a repeated key keeping its last
\* value), which reads back as the same value, is returned unchanged when
\* decoded again, and is the received text itself when that is compact
\* already.  The outcome is decided by the L bytes alone, whatever the
\* frame-length and packet-id VarInts say.
C8_DecodedBody ==
    (op = "get_server_json" /\ pc = "done" /\ "decode" \in Range(steps)) =>
        /\ Len(buffer.v) = hdr[3].v
        /\ consumed = HeaderLen + hdr[3].v
        /\ ~ValidUtf8(buffer.v) => IsErrOf(result, "Utf8")
        /\ (ValidUtf8(buffer.v) /\ IsErr(ParseText(buffer.v))) =>
              IsErrOf(result, "Json")
        /\ (ValidUtf8(buffer.v) /\ IsOk(ParseText(buffer.v))) =>
              /\ IsOk(result)
              /\ ValueFromStr(result.v) = ValueFromStr(buffer.v)
              /\ DecodeBody(result.v) = result
        /\ buffer.v \in { << 49 >>, << 91, 93 >>, << 34, 34 >>,
                          << 34, 195, 169, 34 >> } =>
              result = Ok(buffer.v)

\* C8 witness: a document with insignificant spaces and a repeated key has
\* come back as a different, shorter text.
C8_Witness ==
    /\ op = "get_server_json" /\ pc = "done"
    /\ buffer = Ok(DocRepeatedKey)
    /\ hdr[1].v # hdr[2].v
    /\ IsOk(result) /\ Len(result.v) < Len(buffer.v)

\* The errors with which each step can fail.
StepErrors(step) ==
    CASE step = "resolve" -> { "Resolve", "NoAddress" }
      [] step = "connect" -> { "Connect" }
      [] step = "write" -> { "Write" }
      [] step \in { "read_length", "read_id", "read_string_length" } ->
            { "Io", "InvalidVarInt" }
      [] step = "check_size" -> { "TooLarge" }
      [] step = "read_body" -> { "Io" }
      [] step = "decode" -> { "Utf8", "Json" }
      [] step = "deserialize" -> { "Json" }

\* C10: the steps resolve, connect, write, the three VarInt reads, the
\* size check, the body read, decode and deserialize run in that order,
\* each at most once; a failing step is the last one and the query ends
\* with its error; nothing is written after a failed resolve or connect,
\* nothing is read after a failed write; a query that succeeds has run
\* every step.
C10_StepOrder ==
    /\ Len(steps) <= Len(StepOrder)
    /\ \A i \in 1 .. Len(steps) : steps[i] = StepOrder[i]
    /\ IsErr(result) =>
          /\ pc = "done"
          /\ steps # << >>
          /\ result.e \in StepErrors(steps[Len(steps)])
    /\ "write" \notin Range(steps) => packet = << >>
    /\ (Len(steps) < 3 \/ IsErrOf(result, "Write")) =>
          /\ consumed = 0 /\ hdr = << >> /\ buffer = None
    /\ IsErrOf(result, "Write") =>
          packet # status_packet_builder(hostname, port)
    /\ (pc = "done" /\ ~IsErr(result)) =>
          /\ IsOk(result)
          /\ Len(steps) = IF op = "server_status" THEN 10 ELSE 9
    /\ pc # "done" => result = None

\* C10 witness: a run of server_status whose every step ran, in order, and
\* whose last step, deserialize, failed: the query ended with its error.
C10_Witness ==
    /\ op = "server_status" /\ pc = "done"
    /\ steps = StepOrder
    /\ IsErrOf(result, "Json")

---------------------------------------------------------------------------
(* parse_json on sample texts.  A sample document is an object with one   *)
(* form of each of its four members, in the order description, favicon,   *)
(* players, version; the other samples are not one JSON object.           *)

\* The member "description": well formed, with an unknown member, without
\* text, with a mistyped text, as an array, as a string, absent.
DescriptionForms ==
      \* "description":{"text":"hi"}
    { << 34, 100, 101, 115, 99, 114, 105, 112, 116, 105, 111, 110, 34, 58,
         123, 34, 116, 101, 120, 116, 34, 58, 34, 104, 105, 34, 125 >>,
      \* "description":{"extra":[{"bold":true}],"text":"hi"}
      << 34, 100, 101, 115, 99, 114, 105, 112, 116, 105, 111, 110, 34, 58,
         123, 34, 101, 120, 116, 114, 97, 34, 58, 91, 123, 34, 98, 111,
         108, 100, 34, 58, 116, 114, 117, 101, 125, 93, 44, 34, 116, 101,
         120, 116, 34, 58, 34, 104, 105, 34, 125 >>,
      \* "description":{"extra":[]}
      << 34, 100, 101, 115, 99, 114, 105, 112, 116, 105, 111, 110, 34, 58,
         123, 34, 101, 120, 116, 114, 97, 34, 58, 91, 93, 125 >>,
      \* "description":{"text":7}
      << 34, 100, 101, 115, 99, 114, 105, 112, 116, 105, 111, 110, 34, 58,
         123, 34, 116, 101, 120, 116, 34, 58, 55, 125 >>,
      \* "description":["hi"]
      << 34, 100, 101, 115, 99, 114, 105, 112, 116, 105, 111, 110, 34, 58,
         91, 34, 104, 105, 34, 93 >>,
      \* "description":"hi"
      << 34, 100, 101, 115, 99, 114, 105, 112, 116, 105, 111, 110, 34, 58,
         34, 104, 105, 34 >>,
      \* (absent)
      << >> }

\* The member "favicon": absent, a string, null, a number.
FaviconForms ==
      \* (absent)
    { << >>,
      \* "favicon":"png"
      << 34, 102, 97, 118, 105, 99, 111, 110, 34, 58, 34, 112, 110, 103,
         34 >>,
      \* "favicon":null
      << 34, 102, 97, 118, 105, 99, 111, 110, 34, 58, 110, 117, 108,
         108 >>,
      \* "favicon":5
      << 34, 102, 97, 118, 105, 99, 111, 110, 34, 58, 53 >> }

\* The member "players": well formed, with a sample, with a null sample, with
\* a mistyped max, without online, with max = 2^63, with max = -2^63, with a
\* fractional max, with a sample entry lacking its name.
PlayersForms ==
      \* "players":{"max":20,"online":3}
    { << 34, 112, 108, 97, 121, 101, 114, 115, 34, 58, 123, 34, 109, 97,
         120, 34, 58, 50, 48, 44, 34, 111, 110, 108, 105, 110, 101, 34, 58,
         51, 125 >>,
      \* "players":{"online":3,"max":20,"sample":[{"id":"a","name":"b"}]}
      << 34, 112, 108, 97, 121, 101, 114, 115, 34, 58, 123, 34, 111, 110,
         108, 105, 110, 101, 34, 58, 51, 44, 34, 109, 97, 120, 34, 58, 50,
         48, 44, 34, 115, 97, 109, 112, 108, 101, 34, 58, 91, 123, 34, 105,
         100, 34, 58, 34, 97, 34, 44, 34, 110, 97, 109, 101, 34, 58, 34,
         98, 34, 125, 93, 125 >>,
      \* "players":{"max":20,"online":3,"sample":null}
      << 34, 112, 108, 97, 121, 101, 114, 115, 34, 58, 123, 34, 109, 97,
         120, 34, 58, 50, 48, 44, 34, 111, 110, 108, 105, 110, 101, 34, 58,
         51, 44, 34, 115, 97, 109, 112, 108, 101, 34, 58, 110, 117, 108,
         108, 125 >>,
      \* "players":{"max":"20","online":3}
      << 34, 112, 108, 97, 121, 101, 114, 115, 34, 58, 123, 34, 109, 97,
         120, 34, 58, 34, 50, 48, 34, 44, 34, 111, 110, 108, 105, 110, 101,
         34, 58, 51, 125 >>,
      \* "players":{"max":20}
      << 34, 112, 108, 97, 121, 101, 114, 115, 34, 58, 123, 34, 109, 97,
         120, 34, 58, 50, 48, 125 >>,
      \* "players":{"max":9223372036854775808,"online":3}
      << 34, 112, 108, 97, 121, 101, 114, 115, 34, 58, 123, 34, 109, 97,
         120, 34, 58, 57, 50, 50, 51, 51, 55, 50, 48, 51, 54, 56, 53, 52,
         55, 55, 53, 56, 48, 56, 44, 34, 111, 110, 108, 105, 110, 101, 34,
         58, 51, 125 >>,
      \* "players":{"max":-9223372036854775808,"online":-1}
      << 34, 112, 108, 97, 121, 101, 114, 115, 34, 58, 123, 34, 109, 97,
         120, 34, 58, 45, 57, 50, 50, 51, 51, 55, 50, 48, 51, 54, 56, 53,
         52, 55, 55, 53, 56, 48, 56, 44, 34, 111, 110, 108, 105, 110, 101,
         34, 58, 45, 49, 125 >>,
      \* "players":{"max":2.5,"online":3}
      << 34, 112, 108, 97, 121, 101, 114, 115, 34, 58, 123, 34, 109, 97,
         120, 34, 58, 50, 46, 53, 44, 34, 111, 110, 108, 105, 110, 101, 34,
         58, 51, 125 >>,
      \* "players":{"max":20,"online":3,"sample":[{"id":"a"}]}
      << 34, 112, 108, 97, 121, 101, 114, 115, 34, 58, 123, 34, 109, 97,
         120, 34, 58, 50, 48, 44, 34, 111, 110, 108, 105, 110, 101, 34, 58,
         51, 44, 34, 115, 97, 109, 112, 108, 101, 34, 58, 91, 123, 34, 105,
         100, 34, 58, 34, 97, 34, 125, 93, 125 >> }

\* The member "version": well formed, without protocol, with a mistyped
\* protocol, with a repeated name, with an unknown member, absent.
VersionForms ==
      \* "version":{"name":"1.20","protocol":763}
    { << 34, 118, 101, 114, 115, 105, 111, 110, 34, 58, 123, 34, 110, 97,
         109, 101, 34, 58, 34, 49, 46, 50, 48, 34, 44, 34, 112, 114, 111,
         116, 111, 99, 111, 108, 34, 58, 55, 54, 51, 125 >>,
      \* "version":{"name":"1.20"}
      << 34, 118, 101, 114, 115, 105, 111, 110, 34, 58, 123, 34, 110, 97,
         109, 101, 34, 58, 34, 49, 46, 50, 48, 34, 125 >>,
      \* "version":{"name":"1.20","protocol":"763"}
      << 34, 118, 101, 114, 115, 105, 111, 110, 34, 58, 123, 34, 110, 97,
         109, 101, 34, 58, 34, 49, 46, 50, 48, 34, 44, 34, 112, 114, 111,
         116, 111, 99, 111, 108, 34, 58, 34, 55, 54, 51, 34, 125 >>,
      \* "version":{"name":"a","name":"b","protocol":1}
      << 34, 118, 101, 114, 115, 105, 111, 110, 34, 58, 123, 34, 110, 97,
         109, 101, 34, 58, 34, 97, 34, 44, 34, 110, 97, 109, 101, 34, 58,
         34, 98, 34, 44, 34, 112, 114, 111, 116, 111, 99, 111, 108, 34, 58,
         49, 125 >>,
      \* "version":{"protocol":763,"name":"1.20","x":{"a":[1,null]}}
      << 34, 118, 101, 114, 115, 105, 111, 110, 34, 58, 123, 34, 112, 114,
         111, 116, 111, 99, 111, 108, 34, 58, 55, 54, 51, 44, 34, 110, 97,
         109, 101, 34, 58, 34, 49, 46, 50, 48, 34, 44, 34, 120, 34, 58,
         123, 34, 97, 34, 58, 91, 49, 44, 110, 117, 108, 108, 93, 125,
         125 >>,
      \* (absent)
      << >> }

\* Texts that are not one JSON object.
OtherTexts ==
      \* (absent)
    { << >>,
      \* not json
      << 110, 111, 116, 32, 106, 115, 111, 110 >>,
      \* {
      << 123 >>,
      \* []
      << 91, 93 >>,
      \* {"description"
      << 123, 34, 100, 101, 115, 99, 114, 105, 112, 116, 105, 111, 110,
         34 >>,
      \* {"description":{"text":"hi"},}
      << 123, 34, 100, 101, 115, 99, 114, 105, 112, 116, 105, 111, 110, 34,
         58, 123, 34, 116, 101, 120, 116, 34, 58, 34, 104, 105, 34, 125,
         44, 125 >>,
      \* 7
      << 55 >>,
      \* null
      << 110, 117, 108, 108 >> }

\* The members ms, those that are not absent, separated by commas.
RECURSIVE JoinMembers(_)
JoinMembers(ms) ==
    IF ms = << >> THEN << >>
    ELSE IF Head(ms) = << >> THEN JoinMembers(Tail(ms))
    ELSE IF JoinMembers(Tail(ms)) = << >> THEN Head(ms)
    ELSE Head(ms) \o << 44 >> \o JoinMembers(Tail(ms))

\* The object { ms }.
ObjectText(ms) == << 123 >> \o JoinMembers(ms) \o << 125 >>

\* A document written as arrays of fields where it can be:
\* [{"text":"hi"},"",{"max":1,"online":0},{"name":"v","protocol":1}]
DocArrayForm ==
    << 91, 123, 34, 116, 101, 120, 116, 34, 58, 34, 104, 105, 34, 125, 44, 34,
       34, 44, 123, 34, 109, 97, 120, 34, 58, 49, 44, 34, 111, 110, 108, 105,
       110, 101, 34, 58, 48, 125, 44, 123, 34, 110, 97, 109, 101, 34, 58, 34,
       118, 34, 44, 34, 112, 114, 111, 116, 111, 99, 111, 108, 34, 58, 49,
       125, 93 >>

ParseSamples ==
    { ObjectText(<< d, f, p, v >>) :
        d \in DescriptionForms, f \in FaviconForms,
        p \in PlayersForms, v \in VersionForms }
      \cup OtherTexts \cup DocSamples \cup { DocArrayForm }

ParseInit ==
    /\ op = "parse_json" /\ pc = "start"
    /\ input \in ParseSamples
    /\ num = 0 /\ data = << >> /\ stream = << >>
    /\ hostname = << >> /\ port = 0 /\ packet = << >>
    /\ consumed = 0 /\ value = 0 /\ length = 0
    /\ ret = None /\ buffer = None /\ result = None
    /\ hdr = << >> /\ raw_json = None /\ eof = FALSE /\ steps = << >>

\* parse_json(&input)
Parse ==
    /\ op = "parse_json" /\ pc = "start"
    /\ result' = parse_json(input)
    /\ pc' = "done"
    /\ UNCHANGED << op, hostname, port, packet, consumed, value, length, ret,
                    buffer, codecVars, queryVars >>

ParseNext == Parse

SpecParse == ParseInit /\ [][ParseNext]_vars

---------------------------------------------------------------------------
(* Claims about parse_json (SpecParse) *)

\* The values of the members of the object node that are named key; none
\* when node is not an object.
MemberValues(node, key) ==
    IF node.k # "obj" THEN { }
    ELSE { node.members[i].val :
             i \in { j \in 1 .. Len(node.members) : node.members[j].key = key } }

HasTyped(node, key, kind) == \E v \in MemberValues(node, key) : v.k = kind

TheOne(S) == CHOOSE x \in S : TRUE

\* The required fields of C9, present with the right JSON type.
RequiredFields(tree) ==
    /\ \E d \in MemberValues(tree, K_description) : HasTyped(d, K_text, "str")
    /\ \E p \in MemberValues(tree, K_players) :
          HasTyped(p, K_max, "int") /\ HasTyped(p, K_online, "int")
    /\ \E v \in MemberValues(tree, K_version) :
          HasTyped(v, K_name, "str") /\ HasTyped(v, K_protocol, "int")

\* C9 (as claimed): parse_json succeeds on a JSON object exactly when
\* description.text, players.max, players.online, version.name and
\* version.protocol are present with the right type; text that is not JSON
\* yields the deserialization error.
C9_ParseJson_Original ==
    (op = "parse_json" /\ pc = "done") =>
        /\ IsErr(ParseText(input)) => IsErrOf(result, "Json")
        /\ (IsOk(ParseText(input)) /\ ParseText(input).v.k = "obj") =>
              (IsOk(result) <=> RequiredFields(ParseText(input).v))

\* A struct written as a JSON array is read as the object of its fields in
\* declaration order (keys); an array with more items is no such object.
AsObject(keys, node) ==
    IF node.k = "arr" /\ Len(node.items) <= Len(keys)
    THEN [k |-> "obj",
          members |-> [i \in 1 .. Len(node.items) |->
                          [key |-> keys[i], val |-> node.items[i]]]]
    ELSE node

StatusKeys == << K_description, K_favicon, K_players, K_version >>
DescriptionKeys == << K_text >>
PlayersKeys == << K_max, K_online, K_sample >>
SampleKeys == << K_id, K_name >>
VersionKeys == << K_name, K_protocol >>

\* The member of node named key, read as a struct with the fields keys.
Structs(node, key, keys) ==
    { AsObject(keys, v) : v \in MemberValues(node, key) }

\* A key among keys names two members of the object node.
Repeats(node, keys) ==
    /\ node.k = "obj"
    /\ \E i, j \in 1 .. Len(node.members) :
          /\ i < j
          /\ node.members[i].key = node.members[j].key
          /\ node.members[i].key \in Range(keys)

\* A JSON integer within i64.
IsI64(v) ==
    /\ v.k = "int"
    /\ (v.neg \/ Len(v.digits) < 19
          \/ (Len(v.digits) = 19 /\ ~DigitsLess(I64MaxDigits, v.digits)))

HasI64(node, key) == \E v \in MemberValues(node, key) : IsI64(v)

\* An entry of players.sample: id and name, both strings, neither repeated.
SampleEntryOk(e) ==
    /\ ~Repeats(AsObject(SampleKeys, e), SampleKeys)
    /\ HasTyped(AsObject(SampleKeys, e), K_id, "str")
    /\ HasTyped(AsObject(SampleKeys, e), K_name, "str")

\* What parse_json accepts, of a parsed document read as top.
Accepts(top) ==
    /\ ~Repeats(top, StatusKeys)
    /\ \E d \in Structs(top, K_description, DescriptionKeys) :
          /\ ~Repeats(d, DescriptionKeys)
          /\ HasTyped(d, K_text, "str")
    /\ \A f \in MemberValues(top, K_favicon) : f.k = "str"
    /\ \E p \in Structs(top, K_players, PlayersKeys) :
          /\ ~Repeats(p, PlayersKeys)
          /\ HasI64(p, K_max) /\ HasI64(p, K_online)
          /\ \A s \in MemberValues(p, K_sample) :
                /\ s.k = "arr"
                /\ \A i \in 1 .. Len(s.items) : SampleEntryOk(s.items[i])
    /\ \E v \in Structs(top, K_version, VersionKeys) :
          /\ ~Repeats(v, VersionKeys)
          /\ HasTyped(v, K_name, "str") /\ HasI64(v, K_protocol)

\* The text of the string member key of node.
TextOf(node, key) == TheOne(MemberValues(node, key)).s

\* The value of the integer member key of node.
IntOf(node, key) ==
    [neg |-> TheOne(MemberValues(node, key)).neg,
     digits |-> TheOne(MemberValues(node, key)).digits]

\* The entries of players.sample, or the empty list when it is absent.
SamplesOf(p) ==
    IF MemberValues(p, K_sample) = { } THEN << >>
    ELSE [i \in 1 .. Len(TheOne(MemberValues(p, K_sample)).items) |->
            << TextOf(AsObject(SampleKeys,
                        TheOne(MemberValues(p, K_sample)).items[i]), K_id),
               TextOf(AsObject(SampleKeys,
                        TheOne(MemberValues(p, K_sample)).items[i]), K_name) >>]

\* The ServerStatus with the fields of an accepted document copied.
Copied(top) ==
    << << TextOf(TheOne(Structs(top, K_description, DescriptionKeys)), K_text) >>,
       IF MemberValues(top, K_favicon) = { } THEN << >>
       ELSE TextOf(top, K_favicon),
       << IntOf(TheOne(Structs(top, K_players, PlayersKeys)), K_max),
          IntOf(TheOne(Structs(top, K_players, PlayersKeys)), K_online),
          SamplesOf(TheOne(Structs(top, K_players, PlayersKeys))) >>,
       << TextOf(TheOne(Structs(top, K_version, VersionKeys)), K_name),
          IntOf(TheOne(Structs(top, K_version, VersionKeys)), K_protocol) >> >>

\* What C9 (amended) says of the outcome on a document parsed as tree.
OutcomeOf(top) ==
    /\ IsOk(result) <=> Accepts(top)
    /\ IsOk(result) => result.v = Copied(top)

\* C9 (amended): text that is not JSON yields the deserialization error.
\* On a JSON document, a struct written as an array being read as the
\* object of its fields in declaration order, parse_json succeeds exactly
\* when no field name is repeated in the document or in its description,
\* players, version or a sample entry; description.text and version.name
\* are strings and players.max, players.online and version.protocol are
\* integers within i64; favicon, if present, is a string; and
\* players.sample, if present, is an array of entries with the strings id
\* and name.  On success those fields are copied unchanged, an absent
\* favicon is the empty string, an absent players.sample the empty list,
\* and unknown members are ignored.
C9_ParseJson ==
    (op = "parse_json" /\ pc = "done") =>
        /\ IsErr(ParseText(input)) => IsErrOf(result, "Json")
        /\ IsOk(ParseText(input)) =>
              /\ OutcomeOf(AsObject(StatusKeys, ParseText(input).v))
              /\ IsErr(result) => IsErrOf(result, "Json")

\* C9 witness: a document without favicon and without players.sample, with
\* the unknown member description.extra, parsed with the defaults.
C9_Witness ==
    /\ op = "parse_json" /\ pc = "done"
    /\ IsOk(ParseText(input))
    /\ MemberValues(ParseText(input).v, K_favicon) = { }
    /\ \E d \in MemberValues(ParseText(input).v, K_description) :
          MemberValues(d, << 101, 120, 116, 114, 97 >>) # { }
    /\ \E p \in MemberValues(ParseText(input).v, K_players) :
          MemberValues(p, K_sample) = { }
    /\ IsOk(result)
    /\ result.v[1] = << << 104, 105 >> >>
    /\ result.v[2] = << >>
    /\ result.v[3][3] = << >>

=============================================================================
